---- MODULE Spec2Model ----
(***************************************************************************)
(* Model of runModel() in app/src/main/cpp/native-lib.cpp: chat-template   *)
(* formatting, model/context acquisition, tokenization, prefill, the       *)
(* greedy generation loop with its stop rules, metrics and result           *)
(* assembly.  The llama engine primitives (load, context creation,          *)
(* tokenize, decode, sample, token_to_piece, is_eog) are external: every    *)
(* call is a nondeterministic choice over the outcomes its API allows.      *)
(* Text is modelled as a sequence of one-character strings.                 *)
(***************************************************************************)
EXTENDS Integers, Sequences, FiniteSets, TLC

VARIABLES
    pc,                 \* position in runModel
    prompt,             \* argument: raw prompt
    template_type,      \* argument: template selector
    formatted_prompt,   \* local std::string formatted_prompt
    model,              \* llama_model* : "null" | "live" | "freed"
    ctx,                \* llama_context* : "null" | "live" | "freed"
    sampler,            \* llama_sampler* : "null" | "live" | "freed"
    batch_buf,          \* buffers of llama_batch_init : "null" | "live" | "freed"
    n_prompt,           \* int n_prompt (tokenizer result)
    batch,              \* llama_batch batch
    n_pos,              \* int n_pos
    generated_tokens,   \* int generated_tokens
    output,             \* std::string output
    first_token_seen,   \* bool first_token_seen
    ttft_ms, itps, otps, oet_ms,   \* long metrics, -1 = not measured
    prefill_ms,         \* long prefill_ms (0 until measured)
    token,              \* llama_token token of the current iteration
    result,             \* returned std::string (<<>> is "")
    stop,               \* history: how the run left the loop / returned
    nSampled,           \* history: calls of llama_sampler_sample
    nAppends,           \* history: calls of output.append
    nDecodeSteps,       \* history: decode-step calls of llama_decode
    sampledText,        \* history: pieces of all sampled non-EOG tokens
    tokenized,          \* history: llama_tokenize returned n_prompt > 0
    frees               \* history: number of free calls per resource

vars == <<pc, prompt, template_type, formatted_prompt, model, ctx, sampler,
          batch_buf, n_prompt, batch, n_pos, generated_tokens, output,
          first_token_seen, ttft_ms, itps, otps, oet_ms, prefill_ms, token,
          result, stop, nSampled, nAppends, nDecodeSteps, sampledText, tokenized,
          frees>>

(***************************************************************************)
(* Bounds of the model                                                     *)
(***************************************************************************)
MaxPromptLen == 2      \* longest raw prompt drawn
MaxNegKind == 2        \* template_type is drawn down to -MaxNegKind
MaxKind == 5           \* largest template_type drawn
MaxPrompt == 2         \* largest prompt token count the tokenizer returns
MaxMs == 1             \* longest measured duration in ms

(***************************************************************************)
(* Program constants                                                       *)
(***************************************************************************)
max_tokens == 32
N_CTX == 2048
BUF_SIZE == 128

(***************************************************************************)
(* Prompt formatter (switch on template_type)                              *)
(***************************************************************************)
ChatMLPrefix ==
    <<"<", "|", "i", "m", "_", "s", "t", "a", "r", "t", "|", ">", "u", "s", "e", "r", "\n">>
ChatMLSuffix ==
    <<"<", "|", "i", "m", "_", "e", "n", "d", "|", ">", "\n", "<", "|", "i", "m", "_", "s", "t", "a", "r", "t", "|", ">", "a", "s", "s", "i", "s", "t", "a", "n", "t", "\n">>
GemmaPrefix ==
    <<"<", "s", "t", "a", "r", "t", "_", "o", "f", "_", "t", "u", "r", "n", ">", "u", "s", "e", "r", "\n">>
GemmaSuffix ==
    <<"<", "e", "n", "d", "_", "o", "f", "_", "t", "u", "r", "n", ">", "\n", "<", "s", "t", "a", "r", "t", "_", "o", "f", "_", "t", "u", "r", "n", ">", "m", "o", "d", "e", "l", "\n">>
Llama3Prefix ==
    <<"<", "|", "b", "e", "g", "i", "n", "_", "o", "f", "_", "t", "e", "x", "t", "|", ">", "<", "|", "s", "t", "a", "r", "t", "_", "h", "e", "a", "d", "e", "r", "_", "i", "d", "|", ">", "u", "s", "e", "r", "<", "|", "e", "n", "d", "_", "h", "e", "a", "d", "e", "r", "_", "i", "d", "|", ">", "\n", "\n">>
Llama3Suffix ==
    <<"<", "|", "e", "o", "t", "_", "i", "d", "|", ">", "<", "|", "s", "t", "a", "r", "t", "_", "h", "e", "a", "d", "e", "r", "_", "i", "d", "|", ">", "a", "s", "s", "i", "s", "t", "a", "n", "t", "<", "|", "e", "n", "d", "_", "h", "e", "a", "d", "e", "r", "_", "i", "d", "|", ">", "\n", "\n">>
PhiPrefix ==
    <<"<", "|", "u", "s", "e", "r", "|", ">", "\n">>
PhiSuffix ==
    <<"<", "|", "e", "n", "d", "|", ">", "\n", "<", "|", "a", "s", "s", "i", "s", "t", "a", "n", "t", "|", ">", "\n">>

\* variant: the default branch uses the Phi layout
FormatPromptWrongDefault(p, kind) ==
    CASE kind = 1 -> GemmaPrefix \o p \o GemmaSuffix
      [] kind = 2 -> Llama3Prefix \o p \o Llama3Suffix
      [] kind = 0 -> ChatMLPrefix \o p \o ChatMLSuffix
      [] OTHER    -> PhiPrefix \o p \o PhiSuffix

FormatPrompt(p, kind) ==
    CASE kind = 1 -> GemmaPrefix \o p \o GemmaSuffix
      [] kind = 2 -> Llama3Prefix \o p \o Llama3Suffix
      [] kind = 3 -> PhiPrefix \o p \o PhiSuffix
      [] OTHER    -> ChatMLPrefix \o p \o ChatMLSuffix

(***************************************************************************)
(* Inputs                                                                  *)
(***************************************************************************)
PromptChars == {"a", "\n", "<"}
Prompts == UNION {[1..n -> PromptChars] : n \in 0..MaxPromptLen}
Kinds == (0 - MaxNegKind)..MaxKind
RunPrompts == {<<"a", "\n">>}
RunKinds == {0}
\* a prompt long enough to tokenize into as many tokens as the context holds
LongPrompt == [i \in 1..N_CTX |-> "a"]
CtxPrompts == {LongPrompt}


(***************************************************************************)
(* Engine primitives: the outcomes the llama API allows                    *)
(***************************************************************************)
TokEOG == "EOG"          \* llama_vocab_is_eog is true
TokA == "A"              \* piece "a"
TokEmpty == "EMPTY"      \* llama_token_to_piece returns 0
TokBig == "BIG"          \* piece does not fit buf: negative return
TokNL == "NL"            \* piece "\n"
TokANLB == "ANLB"        \* piece "a\nb"
TokBOS == "BOS"          \* first prompt token (add BOS = true)
Vocab == {TokEOG, TokA, TokEmpty, TokBig, TokNL, TokANLB}

llama_vocab_is_eog(tok) == tok = TokEOG

\* text written to buf by llama_token_to_piece
PieceText(tok) ==
    CASE tok = TokA    -> <<"a">>
      [] tok = TokNL   -> <<"\n">>
      [] tok = TokANLB -> <<"a", "\n", "b">>
      [] OTHER         -> <<>>

\* return value n of llama_token_to_piece(vocab, token, buf, sizeof(buf), 0, true)
llama_token_to_piece(tok) ==
    IF tok = TokBig THEN 0 - (BUF_SIZE + 1) ELSE Len(PieceText(tok))

\* std::vector<llama_token> prompt_tokens(formatted_prompt.size() + 64)
TokenBufferSize(text) == Len(text) + 64

\* values llama_tokenize may return: negative or zero on failure, else the
\* count, which fits the buffer; a prompt token covers at most BUF_SIZE bytes
TokenizeResults(text) ==
    {-1, 0} \cup {n \in (1..MaxPrompt) \cup {N_CTX - 1, N_CTX} :
                    /\ n <= TokenBufferSize(text)
                    /\ n * BUF_SIZE >= Len(text)}

\* outcomes of llama_decode(ctx, batch) for a batch of n tokens when the
\* context already holds used tokens: it fails when the batch does not fit
llama_decode(used, n) == IF used + n <= N_CTX THEN BOOLEAN ELSE {FALSE}

\* prompt_tokens after resize(n_prompt)
PromptTokens(n) == [i \in 1..n |-> IF i = 1 THEN TokBOS ELSE TokA]

\* measured durations (duration_cast<milliseconds>(...).count())
Durations == 0..MaxMs

\* t_first - t_start: the interval from t_start contains the prefill
FirstTokenTimes(prefill) == {prefill, prefill + 1}

EmptyBatch == [n_tokens |-> 0, token |-> <<>>, pos |-> <<>>,
               seq_id |-> <<>>, n_seq_id |-> <<>>, logits |-> <<>>]

\* variant: the logits flag is set on every entry
PrefillBatchAllLogits(n) ==
    [n_tokens |-> n,
     token    |-> PromptTokens(n),
     pos      |-> [i \in 1..n |-> i - 1],
     seq_id   |-> [i \in 1..n |-> 0],
     n_seq_id |-> [i \in 1..n |-> 1],
     logits   |-> [i \in 1..n |-> TRUE]]

\* llama_batch_init(n, 0, n_ctx) followed by the fill loop and the logits flag
PrefillBatch(n) ==
    [n_tokens |-> n,
     token    |-> PromptTokens(n),
     pos      |-> [i \in 1..n |-> i - 1],
     seq_id   |-> [i \in 1..n |-> 0],
     n_seq_id |-> [i \in 1..n |-> 1],
     logits   |-> [i \in 1..n |-> (i = n)]]

\* llama_batch_get_one(&token, 1): one token, every other array null
llama_batch_get_one(tok) ==
    [n_tokens |-> 1, token |-> <<tok>>, pos |-> <<>>,
     seq_id |-> <<>>, n_seq_id |-> <<>>, logits |-> <<>>]

HasNewline(s) == \E i \in 1..Len(s) : s[i] = "\n"

(***************************************************************************)
(* Metrics and result assembly                                             *)
(***************************************************************************)
\* variant: the metric starts at 0 instead of the sentinel
ThroughputZeroDefault(count, ms) ==
    IF ms > 0 THEN (count * 1000) \div ms ELSE 0

\* if (ms > 0) tps = (count * 1000L) / ms;  (tps starts at -1)
Throughput(count, ms) == IF ms > 0 THEN (count * 1000) \div ms ELSE -1

DigitChar(d) == <<"0", "1", "2", "3", "4", "5", "6", "7", "8", "9">>[d + 1]

RECURSIVE Digits(_)
Digits(n) == IF n < 10 THEN <<DigitChar(n)>>
             ELSE Digits(n \div 10) \o <<DigitChar(n % 10)>>

\* std::to_string(long)
to_string(n) == IF n < 0 THEN <<"-">> \o Digits(0 - n) ELSE Digits(n)

LitTTFT == <<"T", "T", "F", "T", "_", "M", "S", "=">>
LitITPS == <<";", "I", "T", "P", "S", "=">>
LitOTPS == <<";", "O", "T", "P", "S", "=">>
LitOET == <<";", "O", "E", "T", "_", "M", "S", "=">>
LitPipe == <<"|">>

\* variant: OTPS is written before ITPS
ResultStringSwapped(ttft, i, o, oet, out) ==
    LitTTFT \o to_string(ttft) \o LitOTPS \o to_string(o) \o
    LitITPS \o to_string(i) \o LitOET \o to_string(oet) \o LitPipe \o out

\* variant: the header is left out
ResultStringNoHeader(ttft, i, o, oet, out) == out

ResultString(ttft, i, o, oet, out) ==
    LitTTFT \o to_string(ttft) \o LitITPS \o to_string(i) \o
    LitOTPS \o to_string(o) \o LitOET \o to_string(oet) \o LitPipe \o out

EmptyString == <<>>

(***************************************************************************)
(* State                                                                   *)
(***************************************************************************)
Resources == {"model", "ctx", "sampler", "batch_buf"}

inputs == <<prompt, template_type>>
handles == <<model, ctx, sampler, batch_buf, frees>>
metrics == <<ttft_ms, itps, otps, oet_ms, prefill_ms>>
genState == <<n_pos, generated_tokens, output, first_token_seen, token>>
hist == <<nSampled, nAppends, nDecodeSteps, sampledText, tokenized>>

InitWith(ps, ks) ==
    /\ pc = "format"
    /\ prompt \in ps
    /\ template_type \in ks
    /\ formatted_prompt = <<>>
    /\ model = "null" /\ ctx = "null" /\ sampler = "null" /\ batch_buf = "null"
    /\ n_prompt = 0
    /\ batch = EmptyBatch
    /\ n_pos = 0
    /\ generated_tokens = 0
    /\ output = <<>>
    /\ first_token_seen = FALSE
    /\ ttft_ms = -1 /\ itps = -1 /\ otps = -1 /\ oet_ms = -1
    /\ prefill_ms = 0
    /\ token = "none"
    /\ result = EmptyString
    /\ stop = "running"
    /\ nSampled = 0 /\ nAppends = 0 /\ nDecodeSteps = 0
    /\ sampledText = <<>>
    /\ tokenized = FALSE
    /\ frees = [r \in Resources |-> 0]

Init == InitWith(RunPrompts, RunKinds)
InitFormat == InitWith(Prompts, Kinds)
InitCtx == InitWith(CtxPrompts, RunKinds)


(***************************************************************************)
(* runModel, step by step                                                  *)
(***************************************************************************)
\* return ""; on an early failure (no cleanup code runs on these paths)
ReturnEmpty(why) ==
    /\ result' = EmptyString
    /\ stop' = why
    /\ pc' = "done"

\* lines 60-84: the template switch
Format ==
    /\ pc = "format"
    /\ formatted_prompt' = FormatPrompt(prompt, template_type)
    /\ pc' = "load_model"
    /\ UNCHANGED <<inputs, handles, metrics, genState, hist,
                   n_prompt, batch, result, stop>>

\* lines 87-101: llama_model_load_from_file
LoadModel ==
    /\ pc = "load_model"
    /\ \E ok \in BOOLEAN :
         IF ok
         THEN /\ model' = "live"
              /\ pc' = "create_context"
              /\ UNCHANGED <<result, stop>>
         ELSE /\ ReturnEmpty("load_failed")
              /\ UNCHANGED model
    /\ UNCHANGED <<inputs, formatted_prompt, ctx, sampler, batch_buf, frees,
                   metrics, genState, hist, n_prompt, batch>>

\* variant: the result of llama_init_from_model is not checked
CreateContextUnchecked ==
    /\ pc = "create_context"
    /\ \E ok \in BOOLEAN : ctx' = IF ok THEN "live" ELSE "null"
    /\ pc' = "tokenize"
    /\ UNCHANGED <<inputs, formatted_prompt, model, sampler, batch_buf, frees,
                   metrics, genState, hist, n_prompt, batch, result, stop>>

\* lines 103-113: llama_init_from_model
CreateContext ==
    /\ pc = "create_context"
    /\ \E ok \in BOOLEAN :
         IF ok
         THEN /\ ctx' = "live"
              /\ pc' = "tokenize"
              /\ UNCHANGED <<result, stop>>
         ELSE /\ ReturnEmpty("ctx_failed")
              /\ UNCHANGED ctx
    /\ UNCHANGED <<inputs, formatted_prompt, model, sampler, batch_buf, frees,
                   metrics, genState, hist, n_prompt, batch>>

\* lines 115-138: llama_tokenize and the n_prompt <= 0 check
Tokenize ==
    /\ pc = "tokenize"
    /\ \E n \in TokenizeResults(formatted_prompt) :
         /\ n_prompt' = n
         /\ IF n <= 0
            THEN /\ ReturnEmpty("tokenize_failed")
                 /\ UNCHANGED tokenized
            ELSE /\ tokenized' = TRUE
                 /\ pc' = "build_batch"
                 /\ UNCHANGED <<result, stop>>
    /\ UNCHANGED <<inputs, formatted_prompt, handles, metrics, genState,
                   nSampled, nAppends, nDecodeSteps, sampledText, batch>>

\* lines 140-153: llama_batch_init and the fill loop
BuildBatch ==
    /\ pc = "build_batch"
    /\ batch_buf' = "live"
    /\ batch' = PrefillBatch(n_prompt)
    /\ pc' = "prefill"
    /\ UNCHANGED <<inputs, formatted_prompt, model, ctx, sampler, frees,
                   metrics, genState, hist, n_prompt, result, stop>>

\* variant: a failed prefill is logged but the function carries on
PrefillIgnoresFailure ==
    /\ pc = "prefill"
    /\ \E ok \in llama_decode(0, n_prompt), ms \in Durations :
         /\ prefill_ms' = ms
         /\ itps' = Throughput(n_prompt, ms)
         /\ stop' = IF ok THEN stop ELSE "prefill_failed"
    /\ pc' = "start_generation"
    /\ UNCHANGED <<inputs, formatted_prompt, handles, ttft_ms, otps, oet_ms,
                   genState, hist, n_prompt, batch, result>>

\* lines 155-172: the prefill llama_decode, prefill_ms and itps
Prefill ==
    /\ pc = "prefill"
    /\ \E ok \in llama_decode(0, n_prompt), ms \in Durations :
         IF ok
         THEN /\ prefill_ms' = ms
              /\ itps' = Throughput(n_prompt, ms)
              /\ pc' = "start_generation"
              /\ UNCHANGED <<result, stop>>
         ELSE /\ ReturnEmpty("prefill_failed")
              /\ UNCHANGED <<itps, prefill_ms>>
    /\ UNCHANGED <<inputs, formatted_prompt, handles, ttft_ms, otps, oet_ms,
                   genState, hist, n_prompt, batch>>

\* lines 174-184: sampler, output, n_pos, n_predict
StartGeneration ==
    /\ pc = "start_generation"
    /\ sampler' = "live"
    /\ output' = <<>>
    /\ n_pos' = 0
    /\ pc' = "loop"
    /\ UNCHANGED <<inputs, formatted_prompt, model, ctx, batch_buf, frees,
                   metrics, generated_tokens, first_token_seen, token, hist,
                   n_prompt, batch, result, stop>>

n_predict == max_tokens

\* line 186: while (n_pos + batch.n_tokens < n_prompt + n_predict)
LoopCondition == n_pos + batch.n_tokens < n_prompt + n_predict

LoopTest ==
    /\ pc = "loop"
    /\ IF LoopCondition
       THEN pc' = "sample" /\ UNCHANGED stop
       ELSE pc' = "finalize" /\ stop' = "budget"
    /\ UNCHANGED <<inputs, formatted_prompt, handles, metrics, genState, hist,
                   n_prompt, batch, result>>

\* variant: TTFT is recorded right after sampling, before the EOG check
SampleRecordsTTFT ==
    /\ pc = "sample"
    /\ \E tok \in Vocab, t_first \in FirstTokenTimes(prefill_ms) :
         /\ token' = tok
         /\ nSampled' = nSampled + 1
         /\ ttft_ms' = IF ~first_token_seen THEN t_first ELSE ttft_ms
         /\ IF llama_vocab_is_eog(tok)
            THEN pc' = "finalize" /\ stop' = "eog"
            ELSE pc' = "append" /\ UNCHANGED stop
    /\ UNCHANGED <<inputs, formatted_prompt, handles, itps, otps, oet_ms,
                   prefill_ms, n_pos, generated_tokens, output,
                   first_token_seen, nAppends, nDecodeSteps, sampledText,
                   tokenized, n_prompt, batch, result>>

\* lines 188-193: llama_sampler_sample and the EOG break
Sample ==
    /\ pc = "sample"
    /\ \E tok \in Vocab :
         /\ token' = tok
         /\ nSampled' = nSampled + 1
         /\ IF llama_vocab_is_eog(tok)
            THEN pc' = "finalize" /\ stop' = "eog"
            ELSE pc' = "append" /\ UNCHANGED stop
    /\ UNCHANGED <<inputs, formatted_prompt, handles, metrics, n_pos,
                   generated_tokens, output, first_token_seen, nAppends,
                   nDecodeSteps, sampledText, tokenized, n_prompt, batch,
                   result>>

\* variant: first_token_seen is not consulted
RecordTTFTAlways(t) == t

\* lines 195-202: ttft_ms is set on the first non-EOG token only
RecordTTFT(t) == IF ~first_token_seen THEN t ELSE ttft_ms

\* variant: the newline test looks at the first character of the piece only
AppendPieceFirstCharOnly ==
    /\ pc = "append"
    /\ \E t_first \in FirstTokenTimes(prefill_ms) :
         ttft_ms' = RecordTTFT(t_first)
    /\ first_token_seen' = TRUE
    /\ sampledText' = sampledText \o PieceText(token)
    /\ LET n == llama_token_to_piece(token)
           appended == IF n > 0 THEN output \o PieceText(token) ELSE output
       IN /\ output' = appended
          /\ nAppends' = IF n > 0 THEN nAppends + 1 ELSE nAppends
          /\ IF n > 0 /\ PieceText(token)[1] = "\n"
             THEN /\ pc' = "finalize"
                  /\ stop' = "newline"
                  /\ UNCHANGED generated_tokens
             ELSE /\ generated_tokens' = generated_tokens + 1
                  /\ pc' = "decode"
                  /\ UNCHANGED stop
    /\ UNCHANGED <<inputs, formatted_prompt, handles, itps, otps, oet_ms,
                   prefill_ms, n_pos, token, nSampled, nDecodeSteps, tokenized,
                   n_prompt, batch, result>>

\* variant: the counter is incremented before the newline test
AppendPieceCountsFirst ==
    /\ pc = "append"
    /\ \E t_first \in FirstTokenTimes(prefill_ms) :
         ttft_ms' = RecordTTFT(t_first)
    /\ first_token_seen' = TRUE
    /\ sampledText' = sampledText \o PieceText(token)
    /\ generated_tokens' = generated_tokens + 1
    /\ LET n == llama_token_to_piece(token)
           appended == IF n > 0 THEN output \o PieceText(token) ELSE output
       IN /\ output' = appended
          /\ nAppends' = IF n > 0 THEN nAppends + 1 ELSE nAppends
          /\ IF n > 0 /\ HasNewline(appended)
             THEN pc' = "finalize" /\ stop' = "newline"
             ELSE pc' = "decode" /\ UNCHANGED stop
    /\ UNCHANGED <<inputs, formatted_prompt, handles, itps, otps, oet_ms,
                   prefill_ms, n_pos, token, nSampled, nDecodeSteps, tokenized,
                   n_prompt, batch, result>>

\* lines 195-218: TTFT, token_to_piece, append, newline break, counter
AppendPiece ==
    /\ pc = "append"
    /\ \E t_first \in FirstTokenTimes(prefill_ms) :
         ttft_ms' = RecordTTFT(t_first)
    /\ first_token_seen' = TRUE
    /\ sampledText' = sampledText \o PieceText(token)
    /\ LET n == llama_token_to_piece(token)
           appended == IF n > 0 THEN output \o PieceText(token) ELSE output
       IN /\ output' = appended
          /\ nAppends' = IF n > 0 THEN nAppends + 1 ELSE nAppends
          /\ IF n > 0 /\ HasNewline(appended)
             THEN /\ pc' = "finalize"
                  /\ stop' = "newline"
                  /\ UNCHANGED generated_tokens
             ELSE /\ generated_tokens' = generated_tokens + 1
                  /\ pc' = "decode"
                  /\ UNCHANGED stop
    /\ UNCHANGED <<inputs, formatted_prompt, handles, itps, otps, oet_ms,
                   prefill_ms, n_pos, token, nSampled, nDecodeSteps, tokenized, n_prompt,
                   batch, result>>

\* variant: a failed decode step returns "" like a failed prefill
DecodeStepFailureFatal ==
    /\ pc = "decode"
    /\ batch' = llama_batch_get_one(token)
    /\ nDecodeSteps' = nDecodeSteps + 1
    /\ \E ok \in llama_decode(n_prompt + nDecodeSteps, 1) :
         IF ok
         THEN /\ n_pos' = n_pos + batch'.n_tokens
              /\ pc' = "loop"
              /\ UNCHANGED <<stop, result>>
         ELSE /\ ReturnEmpty("decode_error")
              /\ UNCHANGED n_pos
    /\ UNCHANGED <<inputs, formatted_prompt, handles, metrics,
                   generated_tokens, output, first_token_seen, token,
                   nSampled, nAppends, sampledText, tokenized, n_prompt>>

\* variant: the position cursor is not advanced after a decode step
DecodeStepNoAdvance ==
    /\ pc = "decode"
    /\ batch' = llama_batch_get_one(token)
    /\ nDecodeSteps' = nDecodeSteps + 1
    /\ \E ok \in llama_decode(n_prompt + nDecodeSteps, 1) :
         IF ok
         THEN /\ pc' = "loop"
              /\ UNCHANGED stop
         ELSE /\ pc' = "finalize"
              /\ stop' = "decode_error"
    /\ UNCHANGED <<inputs, formatted_prompt, handles, metrics, n_pos,
                   generated_tokens, output, first_token_seen, token,
                   nSampled, nAppends, sampledText, tokenized, n_prompt,
                   result>>

\* variant: the token budget is tested before the forward pass
DecodeStepBudgetFirst ==
    /\ pc = "decode"
    /\ IF n_pos + 2 >= n_prompt + n_predict
       THEN /\ pc' = "finalize"
            /\ stop' = "budget"
            /\ UNCHANGED <<batch, nDecodeSteps, n_pos>>
       ELSE /\ batch' = llama_batch_get_one(token)
            /\ nDecodeSteps' = nDecodeSteps + 1
            /\ \E ok \in llama_decode(n_prompt + nDecodeSteps, 1) :
                 IF ok
                 THEN /\ n_pos' = n_pos + batch'.n_tokens
                      /\ pc' = "loop"
                      /\ UNCHANGED stop
                 ELSE /\ pc' = "finalize"
                      /\ stop' = "decode_error"
                      /\ UNCHANGED n_pos
    /\ UNCHANGED <<inputs, formatted_prompt, handles, metrics,
                   generated_tokens, output, first_token_seen, token,
                   nSampled, nAppends, sampledText, tokenized, n_prompt,
                   result>>

\* lines 220-228: llama_batch_get_one, the decode-step llama_decode, n_pos
DecodeStep ==
    /\ pc = "decode"
    /\ batch' = llama_batch_get_one(token)
    /\ nDecodeSteps' = nDecodeSteps + 1
    /\ \E ok \in llama_decode(n_prompt + nDecodeSteps, 1) :
         IF ok
         THEN /\ n_pos' = n_pos + batch'.n_tokens
              /\ pc' = "loop"
              /\ UNCHANGED stop
         ELSE /\ pc' = "finalize"
              /\ stop' = "decode_error"
              /\ UNCHANGED n_pos
    /\ UNCHANGED <<inputs, formatted_prompt, handles, metrics,
                   generated_tokens, output, first_token_seen, token,
                   nSampled, nAppends, sampledText, tokenized, n_prompt,
                   result>>

\* one free call on a handle
Free(h) == IF h = "live" THEN "freed" ELSE h

\* lines 231-267: gen_ms, otps, oet_ms; llama_sampler_free, llama_free,
\* llama_free_model (llama_batch_free is commented out); the result string
FinalizeAndReturn ==
    /\ pc = "finalize"
    /\ \E gen_ms \in Durations :
         /\ otps' = Throughput(generated_tokens, gen_ms)
         /\ oet_ms' = gen_ms
    /\ sampler' = Free(sampler)
    /\ ctx' = Free(ctx)
    /\ model' = Free(model)
    /\ frees' = [frees EXCEPT !["sampler"] = @ + 1, !["ctx"] = @ + 1,
                              !["model"] = @ + 1]
    /\ result' = ResultString(ttft_ms, itps, otps', oet_ms', output)
    /\ pc' = "done"
    /\ UNCHANGED <<inputs, formatted_prompt, batch_buf, ttft_ms, itps,
                   prefill_ms, genState, hist, n_prompt, batch, stop>>

Next ==
    \/ Format \/ LoadModel \/ CreateContext \/ Tokenize \/ BuildBatch
    \/ Prefill \/ StartGeneration \/ LoopTest \/ Sample \/ AppendPiece
    \/ DecodeStep \/ FinalizeAndReturn

Spec == Init /\ [][Next]_vars

\* runModel runs on one thread and every engine call returns: a step that
\* can be taken is taken
FairSpec == Spec /\ WF_vars(Next)

\* runs on a prompt that fills the context
SpecCtx == InitCtx /\ [][Next]_vars

\* the formatter alone, over the whole input range
NextFormat == Format

SpecFormat == InitFormat /\ [][NextFormat]_vars


(***************************************************************************)
(* Reading a returned result string back                                   *)
(***************************************************************************)
\* index of the first occurrence of character c in s at or after from, 0 if none
RECURSIVE FirstIndex(_, _, _)
FirstIndex(s, c, from) ==
    IF from > Len(s) THEN 0
    ELSE IF s[from] = c THEN from
    ELSE FirstIndex(s, c, from + 1)

DigitValue(c) == CHOOSE d \in 0..9 : DigitChar(d) = c

RECURSIVE ParseNat(_)
ParseNat(s) == IF Len(s) = 0 THEN 0
               ELSE 10 * ParseNat(SubSeq(s, 1, Len(s) - 1)) + DigitValue(s[Len(s)])

ParseInt(s) == IF s[1] = "-" THEN 0 - ParseNat(Tail(s)) ELSE ParseNat(s)

\* the text after the first "|" of a metrics result
RawOutputOf(r) == SubSeq(r, FirstIndex(r, "|", 1) + 1, Len(r))

\* the text before the first "|" of a metrics result
HeaderOf(r) == SubSeq(r, 1, FirstIndex(r, "|", 1) - 1)

\* index of the last character of the field starting at from: the field
\* ends before the next ";" or "|"
RECURSIVE FieldEnd(_, _)
FieldEnd(r, from) ==
    IF from > Len(r) \/ r[from] = ";" \/ r[from] = "|" THEN from - 1
    ELSE FieldEnd(r, from + 1)

\* the integer written after the literal lit in the header of r, where the
\* literal starts at index at
FieldAt(r, lit, at) ==
    ParseInt(SubSeq(r, at + Len(lit), FieldEnd(r, at + Len(lit))))

TTFTOf(r) == FieldAt(r, LitTTFT, 1)
ITPSOf(r) == FieldAt(r, LitITPS, FirstIndex(r, ";", 1))
OTPSOf(r) == FieldAt(r, LitOTPS, FirstIndex(r, ";", FirstIndex(r, ";", 1) + 1))

Returned == pc = "done"
ReturnedMetrics == pc = "done" /\ result # EmptyString
EarlyFailures == {"load_failed", "ctx_failed", "tokenize_failed", "prefill_failed"}
LoopExits == {"eog", "newline", "budget", "decode_error"}

(***************************************************************************)
(* Claims                                                                  *)
(***************************************************************************)

\* C1: the generation loop generates at most max_tokens = 32 tokens: neither
\* the generated-token counter nor the number of sampled tokens whose text
\* was appended to the output ever exceeds 32.
C1_TokenBudget ==
    /\ generated_tokens <= max_tokens
    /\ nAppends <= max_tokens

\* C2: on every early-failure return after an acquisition (context creation,
\* tokenization or prefill failed) every resource acquired so far has been
\* released exactly once when the function returns.
C2_EarlyFailureReleases ==
    (Returned /\ stop \in {"ctx_failed", "tokenize_failed", "prefill_failed"})
        => /\ model = "freed" /\ frees["model"] = 1
           /\ ctx # "null" => (ctx = "freed" /\ frees["ctx"] = 1)

\* C3: when the loop stops on a newline, the raw output text of the returned
\* result holds no newline (and so nothing that followed it in the piece).
C3_NewlineStripped ==
    (Returned /\ stop = "newline") => ~HasNewline(RawOutputOf(result))

\* C4: when model loading, context creation, tokenization or the prefill
\* forward pass fails, runModel has returned the empty string, and the run
\* sampled no token and submitted no decode-step forward pass.
C4_FatalFailureEmpty ==
    stop \in EarlyFailures
        => /\ Returned
           /\ result = EmptyString
           /\ nSampled = 0
           /\ nDecodeSteps = 0

C4_Witness == Returned /\ stop = "prefill_failed" /\ batch.n_tokens = n_prompt

\* C5: when a decode-step forward pass fails after k >= 1 sampled tokens,
\* the result is not empty: it is the metrics header followed by the text of
\* all k tokens, the failing one included, and the generated count is k.
C5_DecodeFailureKeepsOutput ==
    (Returned /\ stop = "decode_error")
        => /\ nSampled >= 1
           /\ generated_tokens = nSampled
           /\ result # EmptyString
           /\ RawOutputOf(result) = sampledText
           /\ OTPSOf(result) = (IF oet_ms > 0
                                THEN (nSampled * 1000) \div oet_ms ELSE -1)
           /\ result = ResultString(ttft_ms, itps, otps, oet_ms, sampledText)

C5_Witness ==
    /\ Returned /\ stop = "decode_error"
    /\ nSampled = 3 /\ nDecodeSteps = 3
    /\ sampledText = <<"a", "a">>

\* C6: in every run that entered the generation loop, at return the sampler,
\* the context and the model have each been released exactly once and
\* nothing acquired in the run, the prefill batch buffers included, is held.
C6_AllReleasedOnce ==
    (Returned /\ stop \in LoopExits)
        => /\ sampler = "freed" /\ frees["sampler"] = 1
           /\ ctx = "freed" /\ frees["ctx"] = 1
           /\ model = "freed" /\ frees["model"] = 1
           /\ batch_buf # "live"

C8_EmptyOutputSentinel ==
    (ReturnedMetrics /\ RawOutputOf(result) = <<>>) => TTFTOf(result) = -1

\* C8 (amended): a metrics result of a run in which no non-EOG token was
\* sampled (the first sampled token was EOG) has TTFT_MS = -1 and an empty
\* raw output text; every other metrics result carries the recorded TTFT,
\* which is not the sentinel, also when its raw output text is empty.
C8_NoTokenSentinel ==
    ReturnedMetrics
        => IF stop = "eog" /\ nSampled = 1
           THEN /\ TTFTOf(result) = -1
                /\ RawOutputOf(result) = <<>>
           ELSE TTFTOf(result) >= 0

C8_Witness == ReturnedMetrics /\ stop = "eog" /\ nSampled = 1

\* C9: for prefill and decode alike, a measured duration of 0 ms gives the
\* throughput -1, a duration > 0 gives count * 1000 / duration, never -1.
C9_DivisionGuard ==
    ReturnedMetrics
        => LET i == ITPSOf(result)
               o == OTPSOf(result)
           IN /\ prefill_ms = 0 => i = -1
              /\ prefill_ms > 0 => /\ i = (n_prompt * 1000) \div prefill_ms
                                   /\ i # -1
              /\ oet_ms = 0 => o = -1
              /\ oet_ms > 0 => /\ o = (generated_tokens * 1000) \div oet_ms
                               /\ o # -1

C9_Witness ==
    /\ ReturnedMetrics
    /\ prefill_ms = 0 /\ oet_ms > 0 /\ generated_tokens > 0

\* C10: the formatted prompt is prefix(k) + prompt + suffix(k) with the
\* prompt verbatim, k the Gemma, Llama3, Phi layout for kinds 1, 2, 3 and
\* the ChatML layout for 0 and every other value.
LayoutOf(kind) == IF kind \in {1, 2, 3} THEN kind ELSE 0
LayoutPrefix == <<ChatMLPrefix, GemmaPrefix, Llama3Prefix, PhiPrefix>>
LayoutSuffix == <<ChatMLSuffix, GemmaSuffix, Llama3Suffix, PhiSuffix>>

C10_FormatLayout ==
    pc # "format"
        => LET pre == LayoutPrefix[LayoutOf(template_type) + 1]
               suf == LayoutSuffix[LayoutOf(template_type) + 1]
               f == formatted_prompt
           IN /\ Len(f) = Len(pre) + Len(prompt) + Len(suf)
              /\ SubSeq(f, 1, Len(pre)) = pre
              /\ SubSeq(f, Len(pre) + 1, Len(pre) + Len(prompt)) = prompt
              /\ SubSeq(f, Len(pre) + Len(prompt) + 1, Len(f)) = suf

C10_Witness ==
    /\ pc # "format"
    /\ template_type \notin {0, 1, 2, 3}
    /\ Len(prompt) > 0
    /\ formatted_prompt = ChatMLPrefix \o prompt \o ChatMLSuffix


OETOf(r) ==
    FieldAt(r, LitOET,
            FirstIndex(r, ";", FirstIndex(r, ";", FirstIndex(r, ";", 1) + 1) + 1))

Occurrences(s, c) == Cardinality({i \in 1..Len(s) : s[i] = c})

\* C11: every result of a run that reached the generation loop reads
\* TTFT_MS=<int>;ITPS=<int>;OTPS=<int>;OET_MS=<int>|<output>, the four
\* metrics in that order, then one pipe, then the output text verbatim; the
\* header holds no pipe, and OET_MS is the measured decode duration, never -1.
C11_ResultFormat ==
    (Returned /\ stop \in LoopExits)
        => /\ result # EmptyString
           /\ LET t == TTFTOf(result)
                  i == ITPSOf(result)
                  o == OTPSOf(result)
                  e == OETOf(result)
              IN /\ result = LitTTFT \o to_string(t) \o LitITPS \o to_string(i)
                             \o LitOTPS \o to_string(o) \o LitOET \o to_string(e)
                             \o LitPipe \o output
                 /\ t = ttft_ms
                 /\ i = itps
                 /\ o = otps
                 /\ e = oet_ms
                 /\ e >= 0
           /\ Occurrences(HeaderOf(result), "|") = 0
           /\ Occurrences(output, "|") = 0 => Occurrences(result, "|") = 1

C11_Witness ==
    /\ Returned /\ stop \in LoopExits
    /\ Len(output) > 1
    /\ oet_ms = 0
    /\ ttft_ms > 0

ContainsNewline(s) == \E i \in DOMAIN s : s[i] = "\n"

\* C12: once the accumulated output contains a newline the loop is left in
\* the same iteration: the output, the sample count, the decode-step count
\* and the generated-token counter never change again, and at every
\* evaluation of the loop condition the output holds no newline.
C12_NewlineStopsAtOnce ==
    /\ [](ContainsNewline(output)
            => (stop = "newline" /\ pc \in {"finalize", "done"}))
    /\ [](pc = "loop" => ~ContainsNewline(output))
    /\ [][ContainsNewline(output)
            => /\ output' = output
               /\ nSampled' = nSampled
               /\ nAppends' = nAppends
               /\ nDecodeSteps' = nDecodeSteps
               /\ generated_tokens' = generated_tokens]_vars

C12_Witness ==
    /\ Returned /\ stop = "newline"
    /\ output = <<"a", "a", "\n", "b">>
    /\ nSampled = 3


\* C13 (as stated): in a run that stops on the token budget the last sampled
\* token is not submitted to a forward pass: there is one decode-step
\* forward pass less than tokens generated.
C13_BudgetBeforeForwardPass ==
    stop = "budget" => nDecodeSteps = generated_tokens - 1

\* C13 (amended): the token-budget stop is taken at the loop condition, after
\* the forward pass of the last sampled token: in a run that stops on the
\* budget every sampled token was submitted, so the decode-step forward
\* passes are as many as the tokens generated.
C13_BudgetAfterForwardPass ==
    stop = "budget"
        => /\ nDecodeSteps = generated_tokens
           /\ nDecodeSteps = nSampled
           /\ batch.token = <<token>>
           /\ ~LoopCondition

C13_Witness == Returned /\ stop = "budget" /\ n_prompt = 1 /\ nDecodeSteps = 32

\* C14: at every evaluation of the loop condition, n_pos plus the size of the
\* current batch is the number of tokens submitted to the context so far:
\* n_prompt plus the number of successful single-token forward passes.
C14_CursorTracksContext ==
    pc = "loop" => n_pos + batch.n_tokens = n_prompt + nDecodeSteps


\* C17: the prefill batch submitted for n_prompt >= 1 tokens has exactly
\* n_prompt entries, entry i holding prompt token i at position i with the
\* single sequence id 0 and the needs-logits flag set on the last entry only;
\* every later batch submitted holds exactly one token, the one just sampled.
C17_BatchShape ==
    /\ [](pc = "prefill"
            => /\ n_prompt >= 1
               /\ batch.n_tokens = n_prompt
               /\ Len(batch.token) = n_prompt
               /\ \A i \in 1..n_prompt :
                    /\ batch.token[i] = PromptTokens(n_prompt)[i]
                    /\ batch.pos[i] = i - 1
                    /\ batch.n_seq_id[i] = 1
                    /\ batch.seq_id[i] = 0
                    /\ batch.logits[i] = (i = n_prompt))
    /\ [][nDecodeSteps' # nDecodeSteps
            => /\ nDecodeSteps' = nDecodeSteps + 1
               /\ batch'.n_tokens = 1
               /\ batch'.token = <<token>>
               /\ token # TokEOG]_vars

C17_Witness ==
    /\ pc = "loop"
    /\ n_prompt >= 2
    /\ nDecodeSteps = 2
    /\ batch.token = <<TokEmpty>>

\* C18 (as stated): a run whose first sampled token is EOG returns the empty
\* result, like a run that hit a fatal error.
C18_EmptyRunLooksFatal ==
    (Returned /\ stop = "eog" /\ nSampled = 1) => result = EmptyString

\* C18 (amended): runModel returns the empty string exactly on a fatal error;
\* a run whose first sampled token is EOG returns the metrics header, the
\* pipe and an empty raw output text, so the two outcomes differ.
C18_EmptyRunDistinct ==
    Returned
        => /\ result = EmptyString <=> stop \in EarlyFailures
           /\ (stop = "eog" /\ nSampled = 1)
                => /\ result # EmptyString
                   /\ result[Len(result)] = "|"
                   /\ RawOutputOf(result) = <<>>

C18_Witness == Returned /\ stop = "eog" /\ nSampled = 1 /\ Len(result) > 0

\* C19: an EOG token is never generated content: sampling it leaves the loop
\* at once without recording TTFT, appending, counting or submitting a
\* forward pass; TTFT_MS is -1 in the result exactly when the first sampled
\* token was EOG; a recorded TTFT is never overwritten.
C19_EogIsNotContent ==
    /\ [][(pc = "sample" /\ token' = TokEOG)
            => /\ pc' = "finalize"
               /\ stop' = "eog"
               /\ UNCHANGED <<ttft_ms, first_token_seen, output,
                              generated_tokens, nAppends, nDecodeSteps,
                              batch, n_pos>>]_vars
    /\ [](stop = "eog" => pc \in {"finalize", "done"})
    /\ [][ttft_ms # -1 => ttft_ms' = ttft_ms]_vars
    /\ [](ReturnedMetrics
            => (TTFTOf(result) = -1 <=> (stop = "eog" /\ nSampled = 1)))

C19_Witness ==
    /\ ReturnedMetrics /\ stop = "eog"
    /\ nSampled = 3
    /\ generated_tokens = 2
    /\ ttft_ms >= 0

\* C20: at every evaluation of the loop condition the generated-token counter
\* equals n_pos; at finalization it equals n_pos after an EOG, newline or
\* budget stop and n_pos + 1 after a decode-step failure; after a newline
\* stop it is one less than the number of non-EOG tokens sampled.
C20_CounterInvariant ==
    /\ pc = "loop" => generated_tokens = n_pos
    /\ stop \in {"eog", "newline", "budget"} => generated_tokens = n_pos
    /\ stop = "decode_error" => generated_tokens = n_pos + 1
    /\ stop = "newline" => generated_tokens = nSampled - 1

C20_Witness ==
    /\ Returned /\ stop = "newline"
    /\ nSampled = 3
    /\ generated_tokens = 2


\* steps runModel can still take, at most: 4 per remaining loop iteration
RankBase == 4 * (MaxPrompt + N_CTX + n_predict) + 4

Rank ==
    CASE pc = "format"           -> RankBase + 6
      [] pc = "load_model"       -> RankBase + 5
      [] pc = "create_context"   -> RankBase + 4
      [] pc = "tokenize"         -> RankBase + 3
      [] pc = "build_batch"      -> RankBase + 2
      [] pc = "prefill"          -> RankBase + 1
      [] pc = "start_generation" -> RankBase
      [] pc = "loop"             -> 4 * (n_prompt + n_predict - n_pos) + 3
      [] pc = "sample"           -> 4 * (n_prompt + n_predict - n_pos) + 2
      [] pc = "append"           -> 4 * (n_prompt + n_predict - n_pos) + 1
      [] pc = "decode"           -> 4 * (n_prompt + n_predict - n_pos)
      [] pc = "finalize"         -> 1
      [] OTHER                   -> 0

\* C15: runModel terminates: every step brings the return nearer, the loop
\* is left through exactly one of EOG, newline, token budget or decode-step
\* failure, and the run then reaches finalization and returns.
C15_Terminates ==
    /\ <>(pc = "done")
    /\ [](Rank >= 0)
    /\ [][Rank' < Rank]_vars
    /\ [](pc = "finalize" => stop \in LoopExits)
    /\ [][(stop \in LoopExits) => stop' = stop]_vars
    /\ []((pc = "done" /\ stop \notin EarlyFailures)
             => (stop \in LoopExits /\ result # EmptyString))

C15_Witness == Returned /\ stop = "budget" /\ nSampled > max_tokens


\* C16: runModel never attempts to place more tokens in the context than its
\* length of 2048: the prompt token count plus the number of decode-step
\* tokens submitted never exceeds 2048.
C16_FitsContext == n_prompt + nDecodeSteps <= N_CTX

====
